---- MODULE Spec2Model ----
(***************************************************************************)
(* Verification model of the ddft/dqc self-consistency and optimisation    *)
(* code: ddft/modules/optimize.py (OptimizationModule, _ForwardOpt,        *)
(* _BackwardOpt), ddft/qccalcs/dft.py (dft), ddft/hamiltons/hatomygauss.py *)
(* (HamiltonAtomYGauss), ddft/grids/radialgrid.py                          *)
(* (LegendreRadialTransform) and dqc/utils/datastruct.py (ValGrad).        *)
(*                                                                         *)
(* Tensors are modelled by exact integers / rationals (a rational is a     *)
(* pair <<num, den>>); an optional value (Python None) is the empty tuple  *)
(* <<>> and a present value v is <<v>>.                                    *)
(***************************************************************************)
EXTENDS Integers, Sequences, FiniteSets, TLC

VARIABLES
    \* ---- OptimizationModule / _ForwardOpt (optimize.py) ----
    pc,          \* position inside one use of OptimizationModule
    cfg,         \* fwd_options merged with the defaults (config)
    mult,        \* self.multiplier
    training,    \* self.training
    A,           \* the model's parameter (model.parameters())
    x0,          \* caller's x0 tensor
    yparams,     \* caller's yparams tensor
    x,           \* the optimizer's working copy of x0 (<<>> before the clone)
    y,           \* detached clone of yparams (<<>> before the clone)
    i,           \* loop index of "for i in range(max_niter)"
    neval,       \* current_evals of the LBFGS opt.step in progress (0: none)
    lbfgs,       \* the state torch.optim.LBFGS keeps between closure calls
    optCls,      \* opt_cls / opt_kwds binding: "unbound", "LBFGS" or "SGD"
    optBuilt,    \* TRUE once opt = opt_cls(x, ...) has run
    zhist,       \* objective values returned by the closure, one per optimizer step
    nclosure,    \* closure evaluations (model evaluations inside the loop)
    nfinal,      \* model evaluations at line 88
    ntrain,      \* model evaluations at line 38
    xgrad,       \* x.grad accumulator
    pgrad,       \* A.grad accumulator (<<>> is None)
    zopt,        \* value returned to the caller (<<>> before return)
    xopt,        \* x* returned to the caller (<<>> before return)
    zpath,       \* autograd producer of zopt: "none", "ForwardOpt" or "model"
    err,         \* exception that ended the call ("" if none)
    gradz,       \* dL/dzopt of the downstream scalar
    gradx,       \* direct dL/dxopt of the downstream scalar
    gxarrive,    \* gradient arriving at x* in the backward pass
    grady,       \* gradient delivered to yparams (<<>> is None)
    gradx0,      \* gradient delivered to x0 (<<>> is None)
    bwd,         \* outcome of the backward pass: "none", "ok", "error"
    \* ---- _BackwardOpt.backward (optimize.py) ----
    bpc,         \* "call" before, "done" after the call
    in_grad_zopt,   \* incoming gradient of the value (nano-units)
    in_grad_xopt,   \* incoming gradients of x*: a tuple of tensors (tuples of elements)
    bres,        \* what the call did: [kind, grads, exc]
    \* ---- dft (dft.py) ----
    dpc,         \* position inside dft.__init__ and after it
    sys,         \* the system: numel, grid/basis tables, dm0, maxiter
    self,        \* attributes of the dft object assigned so far
    yfock,       \* equilibrium's iterate y (a Fock matrix)
    kiter,       \* iterations equilibrium has used
    scfStatus,   \* "INIT", "ITERATING", "CONVERGED", "MAX_ITER_EXCEEDED"
    eigvecs,     \* eigenvectors last returned by lsymeig
    dm_raw,      \* dm of line 124, before normalization
    dens_tot,    \* dens_tot of line 148
    dm_norm,     \* dm returned by the last __normalize_dm
    derr,        \* exception that ended __init__ ("" if none)
    \* ---- HamiltonAtomYGauss.__init__ (hatomygauss.py) ----
    hpc,         \* "new", "loop" (lines 118-123), "done"
    hin,         \* arguments: maxangmom, dtype and ng of gwidths
    hshape,      \* [nsh, ns] of lines 50-51 (<<>> before)
    angmom,      \* outer loop variable
    jm,          \* inner loop variable j
    lhat_list,   \* the Python list lhat
    lhat,        \* self.lhat, the tensor of line 125 (<<>> before)
    \* ---- dft.energy / dft.density (dft.py) ----
    ndiag,       \* calls of __diagonalize made by energy()
    ncall,       \* energy() / density() calls made so far
    lastret,     \* what the last energy() / density() call returned (<<>> before)
    \* ---- dft.__normalize_dm applied to given matrices (dft.py) ----
    npc,         \* "new", "plain", "scaled", "twice": the calls made so far
    nin,         \* the inputs: [dm, c, numel, grid]
    nout,        \* the results: [plain, scaled, twice] (<<>> until computed)
    \* ---- dft default options (dft.py lines 28-53, 201-215) ----
    opc,         \* "new", "eigen" (after line 49), "done" (after line 53)
    hmshape,     \* self.hmodel.shape
    eig_arg,     \* the caller's eigen_options (a dict: a set of <<key, value>>)
    bck_arg,     \* the caller's bck_options (<<>> is None, <<dict>> otherwise)
    eigen_options,  \* self.eigen_options (<<>> before line 49)
    bck_options,    \* bck_options after line 52 (<<>> before)
    \* ---- LegendreRadialTransform.getparams / setparams (radialgrid.py) ----
    rs,          \* self.rs
    dvolume,     \* self._dvolume
    tparams,     \* parameters held by self.transformobj for "invtransform"
    iparams,     \* parameters held by self.interpolator for "interp"
    gcall,       \* the last call: [op, methodname, params] (<<>> before)
    gret,        \* its outcome: [kind, val] (<<>> before)
    gprev,       \* the attributes as they were before the last call
    lastdv,      \* the value most recently given to _dvolume by setparams
    \* ---- ValGrad (datastruct.py) ----
    vpc,         \* "new" before the operation, "done" after it
    va,          \* left operand a
    vb,          \* right operand b of a + b
    vf,          \* factor f of a * f
    vop,         \* the operation applied: "", "add" or "mul"
    vres         \* its outcome: [kind, val] (<<>> before)

optvars == <<pc, cfg, mult, training, A, x0, yparams, x, y, i, neval, lbfgs, optCls,
             optBuilt, zhist, nclosure, nfinal, ntrain, xgrad, pgrad, zopt, xopt, zpath,
             err, gradz, gradx, gxarrive, grady, gradx0, bwd>>

bwdvars == <<bpc, in_grad_zopt, in_grad_xopt, bres>>

dftvars == <<dpc, sys, self, yfock, kiter, scfStatus, eigvecs, dm_raw, dens_tot,
             dm_norm, derr>>

hamvars == <<hpc, hin, hshape, angmom, jm, lhat_list, lhat>>

postvars == <<ndiag, ncall, lastret>>

normvars == <<npc, nin, nout>>

dfltvars == <<opc, hmshape, eig_arg, bck_arg, eigen_options, bck_options>>

gridvars == <<rs, dvolume, tparams, iparams, gcall, gret, gprev, lastdv>>

vgvars == <<vpc, va, vb, vf, vop, vres>>

vars == <<optvars, bwdvars, dftvars, hamvars, postvars, normvars, dfltvars, gridvars, vgvars>>

\* everything outside OptimizationModule / _ForwardOpt
nonopt == <<bwdvars, dftvars, hamvars, postvars, normvars, dfltvars, gridvars, vgvars>>
\* everything outside _BackwardOpt
nonbwd == <<optvars, dftvars, hamvars, postvars, normvars, dfltvars, gridvars, vgvars>>
\* everything outside dft.__init__
nondft == <<optvars, bwdvars, hamvars, postvars, normvars, dfltvars, gridvars, vgvars>>
\* everything outside HamiltonAtomYGauss
nonham == <<optvars, bwdvars, dftvars, postvars, normvars, dfltvars, gridvars, vgvars>>
\* everything outside dft.energy / dft.density (they read and write self)
nonpost == <<optvars, bwdvars, hamvars, normvars, dfltvars, gridvars, vgvars>>
\* everything outside the __normalize_dm calls
nonnorm == <<optvars, bwdvars, dftvars, hamvars, postvars, dfltvars, gridvars, vgvars>>
\* everything outside the default options of dft
nondflt == <<optvars, bwdvars, dftvars, hamvars, postvars, normvars, gridvars, vgvars>>
\* everything outside LegendreRadialTransform
nongrid == <<optvars, bwdvars, dftvars, hamvars, postvars, normvars, dfltvars, vgvars>>
\* everything outside ValGrad
nonvg == <<optvars, bwdvars, dftvars, hamvars, postvars, normvars, dfltvars, gridvars>>

None == <<>>
Some(v) == <<v>>
Abs(n) == IF n < 0 THEN -n ELSE n

\* the variables of OptimizationModule while another component is exercised
IdleOpt ==
    /\ pc = "idle"
    /\ cfg = [method |-> <<>>, max_niter |-> 0, min_eps |-> 1, lrq |-> 2]
    /\ mult = 1 /\ training = FALSE /\ A = 1 /\ x0 = 0 /\ yparams = 0
    /\ x = None /\ y = None /\ i = 0 /\ neval = 0 /\ lbfgs = <<>>
    /\ optCls = "unbound" /\ optBuilt = FALSE
    /\ zhist = <<>> /\ nclosure = 0 /\ nfinal = 0 /\ ntrain = 0
    /\ xgrad = None /\ pgrad = None
    /\ zopt = None /\ xopt = None /\ zpath = "none"
    /\ err = ""
    /\ gradz = 0 /\ gradx = 0 /\ gxarrive = 0
    /\ grady = None /\ gradx0 = None /\ bwd = "none"

\* the variables of _BackwardOpt while another component is exercised
IdleBwd ==
    /\ bpc = "idle" /\ in_grad_zopt = 0 /\ in_grad_xopt = <<>> /\ bres = None

\* the variables of dft while another component is exercised
IdleDft ==
    /\ dpc = "idle" /\ sys = <<>> /\ self = <<>> /\ yfock = <<>> /\ kiter = 0
    /\ scfStatus = "INIT" /\ eigvecs = <<>> /\ dm_raw = <<>> /\ dens_tot = <<>>
    /\ dm_norm = <<>> /\ derr = ""

\* the variables of HamiltonAtomYGauss while another component is exercised
IdleHam ==
    /\ hpc = "idle" /\ hin = <<>> /\ hshape = <<>> /\ angmom = 0 /\ jm = 0
    /\ lhat_list = <<>> /\ lhat = <<>>

\* the variables of dft.energy / dft.density before any call
IdlePost ==
    /\ ndiag = 0 /\ ncall = 0 /\ lastret = None

\* the variables of the __normalize_dm calls while another component is exercised
IdleNorm ==
    /\ npc = "idle" /\ nin = <<>> /\ nout = <<>>

\* the variables of the default options while another component is exercised
IdleDflt ==
    /\ opc = "idle" /\ hmshape = <<>> /\ eig_arg = {} /\ bck_arg = None
    /\ eigen_options = None /\ bck_options = None

\* the variables of LegendreRadialTransform while another component is exercised
IdleGrid ==
    /\ rs = 0 /\ dvolume = 0 /\ tparams = <<>> /\ iparams = <<>>
    /\ gcall = None /\ gret = None /\ gprev = None /\ lastdv = 0

\* the variables of ValGrad while another component is exercised
IdleVG ==
    /\ vpc = "idle" /\ va = <<>> /\ vb = <<>> /\ vf = 0 /\ vop = "" /\ vres = None

(***************************************************************************)
(* Bounds of the model.                                                    *)
(***************************************************************************)
MaxNiter == 3          \* largest max_niter a caller configures
MaxX == 1              \* |x0| <= MaxX
MaxY == 1              \* |yparams| <= MaxY

(***************************************************************************)
(* str.lower() on method names; a name is a tuple of characters.           *)
(***************************************************************************)
UpperChars == <<"A","B","D","F","G","L","M","S">>
LowerChars == <<"a","b","d","f","g","l","m","s">>

LowerChar(c) ==
    IF \E k \in 1..Len(UpperChars) : UpperChars[k] = c
    THEN LowerChars[CHOOSE k \in 1..Len(UpperChars) : UpperChars[k] = c]
    ELSE c

Lower(s) == [k \in 1..Len(s) |-> LowerChar(s[k])]

MethodNames == { <<"l","b","f","g","s">>, <<"L","B","F","G","S">>,
                 <<"s","g","d">>, <<"S","g","d">>,
                 <<"a","d","a","m">>, <<"L","B","F","G">>, <<>> }

(***************************************************************************)
(* Tensor arithmetic of dft.py.  A number is <<n, d>> in lowest terms with *)
(* d > 0; d = 0 encodes the non-finite floats: <<1,0>> is +inf, <<-1,0>>   *)
(* is -inf and <<0,0>> is NaN.                                             *)
(***************************************************************************)
RECURSIVE GCD(_, _)
GCD(a, b) == IF b = 0 THEN a ELSE GCD(b, a % b)

Sgn(n) == IF n > 0 THEN 1 ELSE IF n < 0 THEN -1 ELSE 0

Norm(n, d) ==
    IF d = 0 THEN <<Sgn(n), 0>>
    ELSE IF n = 0 THEN <<0, 1>>
    ELSE <<Sgn(n) * Sgn(d) * (Abs(n) \div GCD(Abs(n), Abs(d))),
           Abs(d) \div GCD(Abs(n), Abs(d))>>

Rat(n) == <<n, 1>>
IsFinite(a) == a[2] # 0
IsNaN(a) == a = <<0, 0>>

\* float multiplication: 0 * inf = NaN
RMul(a, b) == Norm(a[1] * b[1], a[2] * b[2])

\* float division: x / 0 = +-inf for x # 0, 0 / 0 = NaN
RDiv(a, b) ==
    IF IsFinite(a) /\ IsFinite(b) THEN Norm(a[1] * b[2], a[2] * b[1])
    ELSE IF IsNaN(a) \/ IsNaN(b) THEN <<0, 0>>
    ELSE IF IsFinite(a) THEN <<0, 1>>
    ELSE IF IsFinite(b) THEN <<a[1] * (IF b[1] < 0 THEN -1 ELSE 1), 0>>
    ELSE <<0, 0>>

\* float addition: inf + (-inf) = NaN
RAdd(a, b) ==
    IF IsFinite(a) /\ IsFinite(b) THEN Norm(a[1] * b[2] + b[1] * a[2], a[2] * b[2])
    ELSE IF IsNaN(a) \/ IsNaN(b) THEN <<0, 0>>
    ELSE IF IsFinite(a) THEN b
    ELSE IF IsFinite(b) THEN a
    ELSE IF a = b THEN a ELSE <<0, 0>>

\* sum of f[1..n]
RECURSIVE RSum(_, _)
RSum(f, n) == IF n = 0 THEN Rat(0) ELSE RAdd(RSum(f, n - 1), f[n])

(***************************************************************************)
(* _ForwardOpt.forward, optimize.py lines 43-90.                           *)
(***************************************************************************)
MinEpsMicro == 1       \* default "min_eps": 1e-6, in units of 1e-6
MaxAbsX == 12          \* a run is followed while x = n/d has |n| <= MaxAbsX
MaxDenom == 4          \* and d <= MaxDenom
MaxLbfgsEvals == 3     \* an LBFGS opt.step is followed up to this many closure calls
MaxIter == 20          \* torch.optim.LBFGS default max_iter
MaxEval == 25          \* its default max_eval = max_iter * 5 // 4
ToleranceGradInverse == 10000000      \* default tolerance_grad = 1e-7, as 1 / tol
ToleranceChangeInverse == 1000000000  \* default tolerance_change = 1e-9, as 1 / tol
CurvatureRootInverse == 100000        \* the update test ys > 1e-10, as 1 / sqrt(1e-10)
LrQuarters == {2, 4}   \* configured "lr" in quarters: 0.5 and 1.0
AValues == {Rat(-1), Rat(1)}   \* values of the 1 x 1 parameter A

RNeg(a) == RMul(Rat(-1), a)
RSub(a, b) == RAdd(a, RNeg(b))
RAbs(a) == <<Abs(a[1]), a[2]>>

\* the model wrapped by the module, DummyModule.forward of lines 124-137 with
\* nbatch = 1 and nr = 1: Axy = A x + y, xnew = Axy^2 + 1, loss = (x - xnew)^2
Axy(a, xx, yy) == RAdd(RMul(a, xx), yy)
Residual(a, xx, yy) ==
    RSub(xx, RAdd(RMul(Axy(a, xx, yy), Axy(a, xx, yy)), Rat(1)))
Model(a, xx, yy) == RMul(Residual(a, xx, yy), Residual(a, xx, yy))

\* its derivatives, as autograd computes them:
\* d/dx = 2 (x - xnew) (1 - 2 Axy A), d/dy = 2 (x - xnew) (-2 Axy),
\* d/dA = 2 (x - xnew) (-2 Axy x)
dModel_dx(a, xx, yy) ==
    RMul(RMul(Rat(2), Residual(a, xx, yy)),
         RSub(Rat(1), RMul(Rat(2), RMul(Axy(a, xx, yy), a))))
dModel_dy(a, xx, yy) ==
    RMul(RMul(Rat(2), Residual(a, xx, yy)), RMul(Rat(-2), Axy(a, xx, yy)))
dModel_dA(a, xx, yy) ==
    RMul(RMul(Rat(2), Residual(a, xx, yy)),
         RMul(Rat(-2), RMul(Axy(a, xx, yy), xx)))

\* config["lr"]
Lr == Norm(cfg.lrq, 4)

\* the values of x a run is followed on
InRange(xx) == xx[2] <= MaxDenom /\ Abs(xx[1]) <= MaxAbsX

\* |v| <= 1 / inv and |v| < 1 / inv, for a finite v
LeqTol(v, inv) == Abs(v[1]) <= v[2] \div inv
LessTol(v, inv) == Abs(v[1]) <= (v[2] - 1) \div inv

\* the optimizer state before the first opt.step
FreshLbfgs ==
    [n_iter |-> 0, liter |-> 0, d |-> Rat(0), t |-> Rat(0), H_diag |-> Rat(1),
     prev_flat_grad |-> Rat(0), prev_loss |-> Rat(0), loss |-> Rat(0)]

\* a method selection that falls back to SGD for an unknown name
OptClsOf_FallbackSgd(method) ==
    IF Lower(method) = <<"l","b","f","g","s">> THEN "LBFGS" ELSE "SGD"

\* config["method"].lower() and the if / elif of lines 56-62 (there is no else)
OptClsOf(method) ==
    IF Lower(method) = <<"l","b","f","g","s">> THEN "LBFGS"
    ELSE IF Lower(method) = <<"s","g","d">> THEN "SGD"
    ELSE "unbound"

\* gradient accumulation into a .grad that may still be None
Accum(g, v) == IF g = None THEN Some(v) ELSE Some(RAdd(g[1], v))

\* a reset that leaves the accumulator as it is
Zeroed_Kept(g) == g

\* opt.zero_grad() / p.grad.zero_() on a present accumulator
Zeroed(g) == IF g = None THEN None ELSE Some(Rat(0))

\* lines 45-64: defaults, method selection, opt_kwargs.  With a method that is
\* neither "lbfgs" nor "sgd" opt_kwds is unbound at line 64.
SelectMethod ==
    /\ pc = "start"
    /\ optCls' = OptClsOf(cfg.method)
    /\ IF OptClsOf(cfg.method) = "unbound"
       THEN /\ pc' = "raised"
            /\ err' = "UnboundLocalError"
       ELSE /\ pc' = "selected"
            /\ err' = err
    /\ UNCHANGED <<nonopt, cfg, mult, training, A, x0, yparams, x, y, i, neval, lbfgs, optBuilt,
                   zhist, nclosure, nfinal, ntrain, xgrad, pgrad, zopt, xopt, zpath,
                   gradz, gradx, gxarrive, grady, gradx0, bwd>>

\* lines 66-70: detached clones and the optimizer
BuildOpt ==
    /\ pc = "selected"
    /\ x' = Some(x0)
    /\ y' = Some(yparams)
    /\ optBuilt' = TRUE
    /\ i' = 0
    /\ pc' = "loop"
    /\ UNCHANGED <<nonopt, cfg, mult, training, A, x0, yparams, neval, lbfgs, optCls, zhist,
                   nclosure, nfinal, ntrain, xgrad, pgrad, zopt, xopt, zpath,
                   err, gradz, gradx, gxarrive, grady, gradx0, bwd>>

\* a closure that ignores the multiplier
ClosureZ_Unsigned(xx) == Model(A, xx, y[1])

\* lines 72-78: the closure evaluated at xx: value, x.grad and A.grad after it
\* (opt.zero_grad() resets x.grad only; A.grad accumulates)
ClosureZ(xx) == RMul(Model(A, xx, y[1]), Rat(mult))
ClosureXGrad(xx) == Some(RMul(Rat(mult), dModel_dx(A, xx, y[1])))
ClosurePGrad(pg, xx) == Accum(pg, RMul(Rat(mult), dModel_dA(A, xx, y[1])))

\* lines 71-80 with torch.optim.SGD (lr only): one closure call, then
\* x -= lr * x.grad
SgdStep ==
    /\ pc = "loop"
    /\ optCls = "SGD"
    /\ i < cfg.max_niter
    /\ xgrad' = ClosureXGrad(x[1])
    /\ pgrad' = ClosurePGrad(pgrad, x[1])
    /\ x' = Some(RSub(x[1], RMul(Lr, ClosureXGrad(x[1])[1])))
    /\ InRange(x'[1])
    /\ zhist' = Append(zhist, ClosureZ(x[1]))
    /\ nclosure' = nclosure + 1
    /\ i' = i + 1
    /\ UNCHANGED <<nonopt, pc, cfg, mult, training, A, x0, yparams, y, neval, lbfgs, optCls,
                   optBuilt, nfinal, ntrain, zopt, xopt, zpath,
                   err, gradz, gradx, gxarrive, grady, gradx0, bwd>>

\* flat_grad.abs().max() <= tolerance_grad
OptCond(g) == LeqTol(g, ToleranceGradInverse)

\* lines 71-80 with torch.optim.LBFGS (lr only, so max_iter = 20, max_eval = 25,
\* no line search): opt.step first calls the closure at x; its value is what
\* opt.step returns, at once when the gradient is within tolerance_grad
LbfgsBegin ==
    /\ pc = "loop"
    /\ optCls = "LBFGS"
    /\ i < cfg.max_niter
    /\ neval = 0
    /\ xgrad' = ClosureXGrad(x[1])
    /\ pgrad' = ClosurePGrad(pgrad, x[1])
    /\ zhist' = Append(zhist, ClosureZ(x[1]))
    /\ nclosure' = nclosure + 1
    /\ IF OptCond(ClosureXGrad(x[1])[1])
       THEN /\ i' = i + 1
            /\ UNCHANGED <<neval, lbfgs>>
       ELSE /\ neval' = 1
            /\ lbfgs' = [lbfgs EXCEPT !.liter = 0, !.loss = ClosureZ(x[1])]
            /\ i' = i
    /\ UNCHANGED <<nonopt, pc, cfg, mult, training, A, x0, yparams, x, y, optCls,
                   optBuilt, nfinal, ntrain, zopt, xopt, zpath,
                   err, gradz, gradx, gxarrive, grady, gradx0, bwd>>

\* the direction of one inner iteration for a single scalar x.  On the first
\* iteration ever d = -g and H_diag = 1; later y = g - prev_flat_grad,
\* s = d t, and when y s > 1e-10 the pair is stored and H_diag = ys / yy.
\* With one scalar the two-loop recursion over the stored pairs gives
\* -g s / y of the newest pair, which is -g H_diag; with no pair stored it
\* gives -g H_diag with H_diag = 1.
LbfgsYs(g) == RMul(RSub(g, lbfgs.prev_flat_grad), RMul(lbfgs.d, lbfgs.t))
LbfgsPairStored(g) ==
    /\ LbfgsYs(g)[1] > 0
    /\ ~(LbfgsYs(g)[1] <= (LbfgsYs(g)[2] \div CurvatureRootInverse)
                              \div CurvatureRootInverse)
LbfgsHdiag(g) ==
    IF lbfgs.n_iter + 1 = 1 THEN Rat(1)
    ELSE IF LbfgsPairStored(g)
         THEN RDiv(RMul(lbfgs.d, lbfgs.t), RSub(g, lbfgs.prev_flat_grad))
         ELSE lbfgs.H_diag
LbfgsDir(g) == RNeg(RMul(g, LbfgsHdiag(g)))

\* the step length: min(1, 1 / |g|_1) * lr on the first iteration ever, lr later
LbfgsT(g) ==
    IF lbfgs.n_iter + 1 = 1
    THEN IF Abs(g[1]) >= g[2] THEN RMul(RDiv(Rat(1), RAbs(g)), Lr) ELSE Lr
    ELSE Lr

\* one inner iteration of that opt.step: direction and step length, the
\* break on a directional derivative above -tolerance_change, otherwise the
\* move x += t d, the closure at the new point (not on iteration max_iter)
\* and the stopping tests; when one holds opt.step returns
LbfgsIterate ==
    /\ pc = "loop"
    /\ optCls = "LBFGS"
    /\ neval >= 1
    /\ neval < MaxLbfgsEvals
    /\ LET g == xgrad[1]
           d == LbfgsDir(g)
           t == LbfgsT(g)
           gtd == RMul(g, d)
           xn == RAdd(x[1], RMul(t, d))
           liter == lbfgs.liter + 1
           kept == [lbfgs EXCEPT !.n_iter = @ + 1, !.liter = liter, !.d = d,
                                 !.t = t, !.H_diag = LbfgsHdiag(g),
                                 !.prev_flat_grad = g, !.prev_loss = lbfgs.loss]
       IN  IF gtd[1] >= 0 \/ LessTol(gtd, ToleranceChangeInverse)
           THEN /\ lbfgs' = kept
                /\ neval' = 0
                /\ i' = i + 1
                /\ UNCHANGED <<x, xgrad, pgrad, nclosure>>
           ELSE /\ InRange(xn)
                /\ x' = Some(xn)
                /\ IF liter # MaxIter
                   THEN /\ xgrad' = ClosureXGrad(xn)
                        /\ pgrad' = ClosurePGrad(pgrad, xn)
                        /\ nclosure' = nclosure + 1
                        /\ lbfgs' = [kept EXCEPT !.loss = ClosureZ(xn)]
                   ELSE /\ lbfgs' = kept
                        /\ UNCHANGED <<xgrad, pgrad, nclosure>>
                /\ IF \/ liter = MaxIter
                      \/ neval + (IF liter # MaxIter THEN 1 ELSE 0) >= MaxEval
                      \/ OptCond(xgrad'[1])
                      \/ LeqTol(RMul(d, t), ToleranceChangeInverse)
                      \/ LessTol(RSub(lbfgs'.loss, lbfgs'.prev_loss),
                                 ToleranceChangeInverse)
                   THEN /\ neval' = 0
                        /\ i' = i + 1
                   ELSE /\ neval' = neval + (IF liter # MaxIter THEN 1 ELSE 0)
                        /\ i' = i
    /\ UNCHANGED <<nonopt, pc, cfg, mult, training, A, x0, yparams, y, optCls,
                   optBuilt, zhist, nfinal, ntrain, zopt, xopt, zpath,
                   err, gradz, gradx, gxarrive, grady, gradx0, bwd>>

\* lines 82-90: the loop is exhausted; gradients are reset and (zopt, *xopt)
\* is returned.  p.grad is None when no closure ever ran.
ForwardOptReturn ==
    /\ pc = "loop"
    /\ i = cfg.max_niter
    /\ xgrad' = Zeroed(xgrad)
    /\ IF pgrad = None
       THEN /\ pc' = "raised"
            /\ err' = "AttributeError"
            /\ UNCHANGED <<pgrad, zopt, xopt, zpath, nfinal>>
       ELSE /\ pgrad' = Zeroed(pgrad)
            /\ zopt' = Some(Model(A, x[1], y[1]))
            /\ xopt' = x
            /\ zpath' = "ForwardOpt"
            /\ nfinal' = nfinal + 1
            /\ pc' = "applied"
            /\ err' = err
    /\ UNCHANGED <<nonopt, cfg, mult, training, A, x0, yparams, x, y, i, neval, lbfgs, optCls,
                   optBuilt, zhist, nclosure, ntrain, gradz, gradx, gxarrive, grady,
                   gradx0, bwd>>

(***************************************************************************)
(* OptimizationModule.forward, optimize.py lines 28-39, and the backward   *)
(* pass of a downstream scalar L(zopt, xopt).                              *)
(***************************************************************************)
\* lines 30-39: in training mode zopt is re-evaluated on the caller's yparams
ModuleReturn ==
    /\ pc = "applied"
    /\ IF training
       THEN /\ zopt' = Some(Model(A, xopt[1], yparams))
            /\ zpath' = "model"
            /\ ntrain' = ntrain + 1
       ELSE UNCHANGED <<zopt, zpath, ntrain>>
    /\ pc' = "returned"
    /\ UNCHANGED <<nonopt, cfg, mult, training, A, x0, yparams, x, y, i, neval, lbfgs, optCls,
                   optBuilt, zhist, nclosure, nfinal, xgrad, pgrad, xopt,
                   err, gradz, gradx, gxarrive, grady, gradx0, bwd>>

\* _ForwardOpt.backward, lines 92-94: one entry per input of forward
\* (model, mult, x0, fwd_options, yparams); it never raises
ForwardOpt_backward(grad_zopt, grad_xopt) == <<None, None, None, None, None>>

\* whether a returned tensor requires grad.  _ForwardOpt.apply is given no
\* tensor argument (x0 and yparams are tuples, line 29), so its outputs are
\* detached: x* never requires grad, and neither does the zopt of line 88;
\* the zopt of line 38 does (yparams.requires_grad_(), line 33).
ZoptRequiresGrad == zpath = "model"

\* the derivative of L = gz * zopt + gx * xopt with respect to x*: the direct
\* one plus, in training mode, the one through zopt = model(xopt, yparams)
GradAtXopt(gz, gx) ==
    IF zpath = "model"
    THEN RAdd(Rat(gx), RMul(Rat(gz), dModel_dx(A, xopt[1], yparams)))
    ELSE Rat(gx)

\* a gradient for yparams that also follows x* back through the iterations
DirectGradY_ThroughIterations(gz) ==
    Some(RMul(Rat(gz), RAdd(dModel_dy(A, xopt[1], yparams),
                            dModel_dx(A, xopt[1], yparams))))

\* gradient reaching yparams through zopt = model(xopt, yparams), line 38
DirectGradY(gz) == Some(RMul(Rat(gz), dModel_dy(A, xopt[1], yparams)))

\* A.grad after the backward pass: the model evaluation of line 38 is in the
\* graph and its parameter accumulates dL/dA
DirectGradA(pg, gz) == Accum(pg, RMul(Rat(gz), dModel_dA(A, xopt[1], yparams)))

\* L.backward() for the scalar L = gz * zopt + gx * xopt.  When zopt does not
\* require grad (x* never does), backward() raises RuntimeError (no grad_fn) and
\* leaves every .grad as it is; otherwise it runs through the model
\* evaluation of line 38 and stops at x*, which does not require grad.
Backward ==
    /\ pc = "returned"
    /\ \E gz \in {0, 1}, gx \in {-1, 0, 1} :
        /\ gradz' = gz
        /\ gradx' = gx
        /\ gxarrive' = GradAtXopt(gz, gx)
        /\ IF ZoptRequiresGrad
           THEN /\ grady' = DirectGradY(gz)
                /\ pgrad' = DirectGradA(pgrad, gz)
                /\ bwd' = "ok"
                /\ err' = err
           ELSE /\ bwd' = "error"
                /\ err' = "RuntimeError"
                /\ UNCHANGED <<grady, pgrad>>
    /\ gradx0' = gradx0
    /\ pc' = "backpropagated"
    /\ UNCHANGED <<nonopt, cfg, mult, training, A, x0, yparams, x, y, i, neval, lbfgs, optCls,
                   optBuilt, zhist, nclosure, nfinal, ntrain, xgrad, zopt, xopt, zpath>>

InitOpt ==
    /\ IdleNorm
    /\ IdlePost
    /\ IdleDflt
    /\ IdleGrid
    /\ IdleVG
    /\ IdleBwd
    /\ IdleDft
    /\ IdleHam
    /\ pc = "start"
    /\ cfg \in [method : MethodNames, max_niter : 0..MaxNiter,
                min_eps : {MinEpsMicro}, lrq : LrQuarters]
    /\ mult \in {1, -1}
    /\ training \in BOOLEAN
    /\ A \in AValues
    /\ x0 \in { Rat(k) : k \in (-MaxX)..MaxX }
    /\ yparams \in { Rat(k) : k \in (-MaxY)..MaxY }
    /\ x = None /\ y = None /\ i = 0 /\ neval = 0 /\ lbfgs = FreshLbfgs
    /\ optCls = "unbound" /\ optBuilt = FALSE
    /\ zhist = <<>> /\ nclosure = 0 /\ nfinal = 0 /\ ntrain = 0
    /\ xgrad = None /\ pgrad = None
    /\ zopt = None /\ xopt = None /\ zpath = "none"
    /\ err = ""
    /\ gradz = 0 /\ gradx = 0 /\ gxarrive = Rat(0)
    /\ grady = None /\ gradx0 = None /\ bwd = "none"

NextOpt ==
    \/ SelectMethod
    \/ BuildOpt
    \/ SgdStep
    \/ LbfgsBegin
    \/ LbfgsIterate
    \/ ForwardOptReturn
    \/ ModuleReturn
    \/ Backward

SpecOpt == InitOpt /\ [][NextOpt]_vars

(***************************************************************************)
(* Claims about OptimizationModule / _ForwardOpt, checked under SpecOpt.   *)
(***************************************************************************)
SupportedMethod(m) == Lower(m) \in { <<"l","b","f","g","s">>, <<"s","g","d">> }

\* the improvement of the objective between optimizer steps k-1 and k is
\* below min_eps (min_eps in units of 1e-6)
ImprovementBelowMinEps(k) ==
    LET d == RSub(zhist[k - 1], zhist[k])
    IN  /\ Abs(d[1]) < d[2]
        /\ Abs(d[1]) * 1000000 < cfg.min_eps * d[2]

\* C1: whenever the gradient arriving at x* in the backward pass is nonzero,
\* the backward pass ends in an unimplemented-gradient error and delivers no
\* gradient; it never completes normally with that contribution dropped.
C1_NonzeroXoptGradRaises ==
    (pc = "backpropagated" /\ gxarrive # Rat(0))
        => (bwd = "error" /\ grady = None /\ gradx0 = None)

\* C3: the optimisation loop stops at the first step at which max_niter steps
\* have been taken or the improvement between two successive steps is below
\* min_eps: no optimizer step follows a step whose improvement was below min_eps.
C3_NoStepAfterMinEps ==
    \A k \in 2..Len(zhist) : ImprovementBelowMinEps(k) => k = Len(zhist)

\* C7: with a method name that is neither "lbfgs" nor "sgd" (case-insensitive)
\* the call ends in an error before the optimizer is constructed, before any
\* model evaluation and before any optimizer step.
C7_UnsupportedMethodFailsBeforeIterating ==
    ~SupportedMethod(cfg.method) =>
        /\ pc \in {"start", "raised"}
        /\ (pc = "raised" => err = "UnboundLocalError")
        /\ ~optBuilt /\ x = None
        /\ nclosure = 0 /\ nfinal = 0 /\ ntrain = 0
        /\ i = 0 /\ zhist = <<>>

C7_Witness ==
    /\ ~SupportedMethod(cfg.method)
    /\ pc = "raised"
    /\ cfg.max_niter > 0

\* C8: in training mode the returned value is exactly one extra evaluation
\* model(x*, yparams), whatever max_niter is, and the gradient delivered to y
\* is the partial derivative of that evaluation at constant x* (nothing comes
\* back through _ForwardOpt, for x0 or for yparams); in non-training mode the
\* value is the one computed inside _ForwardOpt and y receives no gradient
\* (a backward pass of it stops with an error, nothing requiring grad).
C8_ValueGradientBypassesIterations ==
    pc \in {"returned", "backpropagated"} =>
        /\ nfinal = 1
        /\ training =>
              /\ ntrain = 1
              /\ zpath = "model"
              /\ zopt = Some(Model(A, xopt[1], yparams))
        /\ ~training =>
              /\ ntrain = 0
              /\ zpath = "ForwardOpt"
              /\ zopt = Some(Model(A, x[1], y[1]))
        /\ pc = "backpropagated" =>
              /\ gradx0 = None
              /\ training =>
                    /\ bwd = "ok"
                    /\ grady = Some(RMul(Rat(gradz), dModel_dy(A, xopt[1], yparams)))
              /\ ~training =>
                    /\ bwd = "error"
                    /\ grady = None
        /\ \A gz \in {0, 1}, gx \in {-1, 0, 1} :
              ForwardOpt_backward(gz, gx) = <<None, None, None, None, None>>

C8_Witness ==
    /\ pc = "backpropagated"
    /\ training
    /\ cfg.max_niter >= 2
    /\ gradz = 1
    /\ grady # Some(Rat(0))
    /\ nclosure >= 2

\* C13: every optimizer step evaluates the objective multiplier * model(x, y)
\* with multiplier +1 or -1 (an SGD step moves x against the gradient of that
\* objective), while the value handed back by _ForwardOpt.forward and by
\* OptimizationModule.forward is model(x*, y) itself, in training and
\* non-training mode.
C13_ObjectiveSignedValueUnsigned ==
    [][ /\ mult \in {1, -1}
        /\ Len(zhist') = Len(zhist) + 1 =>
              /\ zhist'[Len(zhist')] = RMul(Rat(mult), Model(A, x[1], y[1]))
              /\ optCls = "SGD" =>
                    x'[1] = RSub(x[1], RMul(Lr, RMul(Rat(mult),
                                                    dModel_dx(A, x[1], y[1]))))
        /\ (optCls = "LBFGS" /\ nclosure' = nclosure + 1) =>
              xgrad' = Some(RMul(Rat(mult), dModel_dx(A, x'[1], y[1])))
        /\ pc' \in {"applied", "returned"} =>
              zopt' = Some(Model(A, xopt'[1], yparams)) ]_vars

\* a maximisation in training mode has returned a nonzero value after steps
\* whose first objective was the sign-flipped model value
C13_Witness ==
    /\ pc = "returned"
    /\ mult = -1
    /\ training
    /\ Len(zhist) >= 2
    /\ zhist[1] = RNeg(Model(A, x0, yparams))
    /\ zhist[1] # Rat(0)
    /\ zopt = Some(Model(A, xopt[1], yparams))
    /\ zopt[1][1] > 0

\* C15: no step of _ForwardOpt.forward changes the caller's x0 or yparams, and
\* when forward returns (which needs max_niter >= 1) the gradient accumulator
\* of the model's parameter is zero.
C15_InputsKeptGradsZeroed ==
    [][ /\ x0' = x0
        /\ yparams' = yparams
        /\ pc' = "applied" =>
              /\ cfg.max_niter >= 1
              /\ pgrad' = Some(Rat(0)) ]_vars

\* forward has returned after several closure evaluations with nonzero
\* parameter gradients, and the optimizer has moved its copy away from x0
C15_Witness ==
    /\ pc = "applied"
    /\ nclosure >= 3
    /\ x0 # yparams
    /\ x # Some(x0)
    /\ pgrad = Some(Rat(0))
    /\ xgrad = Some(Rat(0))

(***************************************************************************)
(* _BackwardOpt.backward, optimize.py lines 105-116.                       *)
(* A tensor element is [kind, v]: kind "fin" with v in units of 1e-9, or   *)
(* kind "nan" (v = 0).                                                     *)
(***************************************************************************)
MaxGradLen == 2        \* elements per grad_xopt tensor
MaxXoptCount == 2      \* number of grad_xopt tensors
AtolNano == 10         \* torch.allclose default atol = 1e-8, in units of 1e-9
RtolInverse == 100000  \* torch.allclose default rtol = 1e-5, as 1 / rtol

Fin(v) == [kind |-> "fin", v |-> v]
NaN == [kind |-> "nan", v |-> 0]
GradElems == {Fin(0), Fin(1), Fin(-11), NaN}

\* all tuples over S of length lo..hi
TuplesOf(S, lo, hi) == UNION {[1..n -> S] : n \in lo..hi}

\* gx * 0, elementwise
TimesZero(e) == IF e.kind = "fin" THEN Fin(0) ELSE NaN

\* torch.allclose(a, b) on one element pair: |a - b| <= atol + rtol * |b|,
\* never true when a NaN is involved
CloseElem(a, b) ==
    /\ a.kind = "fin"
    /\ b.kind = "fin"
    /\ Abs(a.v - b.v) * RtolInverse <= AtolNano * RtolInverse + Abs(b.v)

\* a closeness test with no tolerance at all
AllClose_Exact(gx) == \A k \in 1..Len(gx) : gx[k] = Fin(0)

\* torch.allclose(gx, gx*0), line 110
AllClose(gx) == \A k \in 1..Len(gx) : CloseElem(gx[k], TimesZero(gx[k]))

\* lines 107-116
BackwardOpt_backward(gz, gxs) ==
    IF \A t \in 1..Len(gxs) : AllClose(gxs[t])
    THEN [kind |-> "return", grads |-> <<Some(gz), None, None>>, exc |-> ""]
    ELSE [kind |-> "raise", grads |-> <<>>, exc |-> "RuntimeError"]

BackwardOptCall ==
    /\ bpc = "call"
    /\ bres' = BackwardOpt_backward(in_grad_zopt, in_grad_xopt)
    /\ bpc' = "done"
    /\ UNCHANGED <<nonbwd, in_grad_zopt, in_grad_xopt>>

InitBwd ==
    /\ IdleNorm
    /\ IdlePost
    /\ IdleDflt
    /\ IdleGrid
    /\ IdleVG
    /\ IdleOpt
    /\ IdleDft
    /\ IdleHam
    /\ bpc = "call"
    /\ in_grad_zopt \in {0, 1000000000}
    /\ in_grad_xopt \in TuplesOf(TuplesOf(GradElems, 1, MaxGradLen), 0, MaxXoptCount)
    /\ bres = None

NextBwd == BackwardOptCall

SpecBwd == InitBwd /\ [][NextBwd]_vars

\* some element of some grad_xopt tensor is not zero
HasNonzero(gxs) == \E t \in 1..Len(gxs) : \E k \in 1..Len(gxs[t]) : gxs[t][k] # Fin(0)
\* some element of some grad_xopt tensor is NaN or exceeds 1e-8 in magnitude
HasBeyondTolerance(gxs) ==
    \E t \in 1..Len(gxs) : \E k \in 1..Len(gxs[t]) :
        gxs[t][k].kind # "fin" \/ Abs(gxs[t][k].v) > 10

\* C2 (as stated): the call raises RuntimeError whenever some grad_xopt element
\* is nonzero, and returns (grad_zopt, None, None) only when all are zero.
C2_RaisesOnAnyNonzero ==
    bpc = "done" =>
        IF HasNonzero(in_grad_xopt)
        THEN bres.kind = "raise" /\ bres.exc = "RuntimeError"
        ELSE bres.kind = "return" /\ bres.grads = <<Some(in_grad_zopt), None, None>>

\* C2 (amended): the call raises RuntimeError exactly when some grad_xopt
\* element is NaN or larger than 1e-8 in magnitude; otherwise, also for nonzero
\* elements within 1e-8 of zero, it returns (grad_zopt, None, None).
C2_RaisesBeyondTolerance ==
    bpc = "done" =>
        IF HasBeyondTolerance(in_grad_xopt)
        THEN bres.kind = "raise" /\ bres.exc = "RuntimeError"
        ELSE bres.kind = "return" /\ bres.grads = <<Some(in_grad_zopt), None, None>>

C2_Witness ==
    /\ bpc = "done"
    /\ Len(in_grad_xopt) = 2
    /\ in_grad_xopt[1] = <<Fin(0), Fin(1)>>
    /\ in_grad_xopt[2] = <<Fin(-11), Fin(0)>>
    /\ bres.kind = "raise"

(***************************************************************************)
(* dft, dft.py.  The grid and the basis are tables: basis[p][r] is basis   *)
(* function p at grid point r, dvolume[r] the integration weight.          *)
(***************************************************************************)
EigEntries == {-1, 0, 1}   \* entries of the eigenvectors lsymeig returns
MaxScfIter == 2        \* largest "maxiter" of fwd_options

Grids == { [basis |-> << <<1, 0>>, <<1, 1>> >>, dvolume |-> <<1, 2>>],
           [basis |-> << <<1, 2>>, <<0, 0>> >>, dvolume |-> <<1, 1>>] }
Numels == {2, 3, 4}
Dm0s == { None, Some(<< <<Rat(1), Rat(0)>>, <<Rat(0), Rat(1)>> >>) }

NBasis(grid) == Len(grid.basis)
NGrid(grid) == Len(grid.dvolume)

\* hmodel.dm2dens(dm).density: dens[r] = sum_pq dm[p][q] basis[p][r] basis[q][r]
Dm2Dens(dm, grid) ==
    [r \in 1..NGrid(grid) |->
        RSum([p \in 1..NBasis(grid) |->
                RSum([q \in 1..NBasis(grid) |->
                        RMul(dm[p][q], Rat(grid.basis[p][r] * grid.basis[q][r]))],
                     NBasis(grid))],
             NBasis(grid))]

\* grid.integralbox(f, dim=-1): sum_r f[r] dvolume[r]
IntegralBox(f, grid) ==
    RSum([r \in 1..NGrid(grid) |-> RMul(f[r], Rat(grid.dvolume[r]))], NGrid(grid))

\* the eigenvector matrices lsymeig may return: V[p][o], no zero column
EigVecSet(nb, norb) ==
    {V \in [1..nb -> [1..norb -> EigEntries]] :
        \A o \in 1..norb : \E p \in 1..nb : V[p][o] # 0}

\* sum over o of V[p][o] * V[q][o]
RECURSIVE Contract(_, _, _, _)
Contract(V, p, q, n) ==
    IF n = 0 THEN 0 ELSE Contract(V, p, q, n - 1) + V[p][n] * V[q][n]

\* a density matrix with the closed-shell factor 2 built in
Einsum_Doubled(V) ==
    [p \in 1..Len(V) |-> [q \in 1..Len(V) |-> Rat(2 * Contract(V, p, q, Len(V[1])))]]

\* torch.einsum("...po,...qo->...pq", eigvecs, eigvecs), line 124
Einsum(V) ==
    [p \in 1..Len(V) |-> [q \in 1..Len(V) |-> Rat(Contract(V, p, q, Len(V[1])))]]

\* line 147-148
DensTot(dm, grid) == IntegralBox(Dm2Dens(dm, grid), grid)

\* a rescaling by numel alone, whatever the total of dm
NormalizeDm_FixedFactor(dm, numel, grid) ==
    [p \in 1..Len(dm) |-> [q \in 1..Len(dm) |-> RMul(dm[p][q], Rat(numel))]]

\* a normalization by the plain trace of dm instead of the grid integral
NormalizeDm_ByTrace(dm, numel, grid) ==
    LET normfactor == RDiv(Rat(numel), RSum([k \in 1..Len(dm) |-> dm[k][k]], Len(dm)))
    IN  [p \in 1..Len(dm) |-> [q \in 1..Len(dm) |-> RMul(dm[p][q], normfactor)]]

\* __normalize_dm, lines 144-151
NormalizeDm(dm, numel, grid) ==
    LET normfactor == RDiv(Rat(numel), DensTot(dm, grid))
    IN  [p \in 1..Len(dm) |-> [q \in 1..Len(dm) |-> RMul(dm[p][q], normfactor)]]

\* __dm_to_fock, lines 128-142: the Fock matrix assembled from dm
DmToFock(dm) == [vks_of |-> dm]

IsFiniteMatrix(m) == \A p \in 1..Len(m) : \A q \in 1..Len(m[p]) : IsFinite(m[p][q])

\* equilibrium's convergence test g(y) = y (a NaN never compares equal)
Converged(gy, yy) == IsFiniteMatrix(gy.vks_of) /\ gy = yy

\* __fock_to_dm, lines 114-126, with V the eigenvectors lsymeig returned
FockToDmStep(V) ==
    /\ eigvecs' = V
    /\ dm_raw' = Einsum(V)
    /\ dens_tot' = DensTot(dm_raw', sys.grid)
    /\ dm_norm' = NormalizeDm(dm_raw', sys.numel, sys.grid)

\* __init__ lines 19-64: attributes, options and the initial Fock matrix
\* (__get_init_fock does one forward pass; a given dm0 is used as it is)
DftInitFock ==
    /\ dpc = "new"
    /\ self' = [numel |-> sys.numel, norb |-> sys.numel \div 2]
    /\ IF sys.dm0 = None
       THEN \E V \in EigVecSet(NBasis(sys.grid), sys.numel \div 2) :
                /\ FockToDmStep(V)
                /\ yfock' = DmToFock(dm_norm')
       ELSE /\ yfock' = DmToFock(sys.dm0[1])
            /\ UNCHANGED <<eigvecs, dm_raw, dens_tot, dm_norm>>
    /\ kiter' = 0
    /\ scfStatus' = "ITERATING"
    /\ dpc' = "scf"
    /\ UNCHANGED <<nondft, sys, derr>>

\* one iteration of xitorch.optimize.equilibrium: y <- __forward_pass2(y),
\* lines 104-112, until g(y) = y
ScfIterate ==
    /\ dpc = "scf"
    /\ kiter < sys.maxiter
    /\ \E V \in EigVecSet(NBasis(sys.grid), self.norb) :
        /\ FockToDmStep(V)
        /\ IF Converged(DmToFock(dm_norm'), yfock)
           THEN /\ scfStatus' = "CONVERGED"
                /\ dpc' = "solved"
                /\ UNCHANGED yfock
           ELSE /\ yfock' = DmToFock(dm_norm')
                /\ UNCHANGED <<scfStatus, dpc>>
    /\ kiter' = kiter + 1
    /\ UNCHANGED <<nondft, sys, self, derr>>

\* equilibrium has used its maxiter iterations: it returns the iterate it has
ScfGiveUp ==
    /\ dpc = "scf"
    /\ kiter = sys.maxiter
    /\ scfStatus' = "MAX_ITER_EXCEEDED"
    /\ dpc' = "solved"
    /\ UNCHANGED <<nondft, sys, self, yfock, kiter, eigvecs, dm_raw, dens_tot,
                   dm_norm, derr>>

\* lsymeig on a Fock matrix with NaN / Inf entries may raise instead of returning
EigenRaises ==
    /\ dpc \in {"scf", "solved"}
    /\ ~IsFiniteMatrix(yfock.vks_of)
    /\ dpc' = "raised"
    /\ derr' = "LinAlgError"
    /\ UNCHANGED <<nondft, sys, self, yfock, kiter, scfStatus, eigvecs, dm_raw,
                   dens_tot, dm_norm>>

\* __init__ lines 71-77
DftFinish ==
    /\ dpc = "solved"
    /\ \E V \in EigVecSet(NBasis(sys.grid), self.norb) :
        /\ FockToDmStep(V)
        /\ self' = [scf_dm |-> dm_norm',
                    scf_density |-> Dm2Dens(dm_norm', sys.grid),
                    scf_energy |-> None] @@ self
    /\ dpc' = "constructed"
    /\ UNCHANGED <<nondft, sys, yfock, kiter, scfStatus, derr>>

(***************************************************************************)
(* dft.energy and dft.density, dft.py lines 80-102, called on a            *)
(* constructed object.                                                     *)
(***************************************************************************)
MaxCalls == 3          \* energy() / density() calls made on one object

\* values Etot of line 96 can take (vks_model, eks_model and lsymeig are libraries)
Energies == {-2, -1}

\* a test that never finds a stored energy
EnergyIsCached_Never(s) == FALSE

\* line 81 negated: self.scf_energy is not None
EnergyIsCached(s) == s.scf_energy # None

\* lines 80-98: the first call diagonalises and stores Etot, later calls
\* return the stored value
Energy ==
    /\ dpc = "constructed"
    /\ ncall < MaxCalls
    /\ IF EnergyIsCached(self)
       THEN /\ lastret' = Some([op |-> "energy", kind |-> "return", val |-> self.scf_energy])
            /\ UNCHANGED <<self, ndiag>>
       ELSE \E etot \in Energies :
            /\ self' = [self EXCEPT !.scf_energy = Some(etot)]
            /\ ndiag' = ndiag + 1
            /\ lastret' = Some([op |-> "energy", kind |-> "return", val |-> Some(etot)])
    /\ ncall' = ncall + 1
    /\ UNCHANGED <<nonpost, dpc, sys, yfock, kiter, scfStatus, eigvecs, dm_raw,
                   dens_tot, dm_norm, derr>>

\* line 85: the eigensolver raises inside __diagonalize; nothing is stored
EnergyRaises ==
    /\ dpc = "constructed"
    /\ ncall < MaxCalls
    /\ ~EnergyIsCached(self)
    /\ ndiag' = ndiag + 1
    /\ lastret' = Some([op |-> "energy", kind |-> "raise", val |-> None])
    /\ ncall' = ncall + 1
    /\ UNCHANGED <<nonpost, dftvars>>

\* lines 100-102: density(gridpts) returns self.scf_density when gridpts is
\* None and falls off the end (returns None) otherwise
Density ==
    /\ dpc = "constructed"
    /\ ncall < MaxCalls
    /\ \E gridpts \in {"None", "points"} :
        lastret' = Some([op |-> "density", kind |-> "return",
                         val |-> IF gridpts = "None" THEN Some(self.scf_density) ELSE None])
    /\ ncall' = ncall + 1
    /\ UNCHANGED <<nonpost, dftvars, ndiag>>

InitDft ==
    /\ IdleNorm
    /\ IdlePost
    /\ IdleDflt
    /\ IdleGrid
    /\ IdleVG
    /\ IdleOpt
    /\ IdleBwd
    /\ IdleHam
    /\ dpc = "new"
    /\ sys \in [numel : Numels, grid : Grids, dm0 : Dm0s, maxiter : 1..MaxScfIter]
    /\ self = <<>> /\ yfock = <<>> /\ kiter = 0
    /\ scfStatus = "INIT" /\ eigvecs = <<>> /\ dm_raw = <<>> /\ dens_tot = <<>>
    /\ dm_norm = <<>> /\ derr = ""

NextDft ==
    \/ DftInitFock
    \/ ScfIterate
    \/ ScfGiveUp
    \/ EigenRaises
    \/ DftFinish

SpecDft == InitDft /\ [][NextDft]_vars

\* construction with the default arguments (dm0 = None) and one SCF
\* iteration allowed, followed by energy() / density() calls
InitPost ==
    /\ IdleNorm
    /\ IdlePost
    /\ IdleDflt
    /\ IdleGrid
    /\ IdleVG
    /\ IdleOpt
    /\ IdleBwd
    /\ IdleHam
    /\ dpc = "new"
    /\ sys \in [numel : Numels, grid : Grids, dm0 : {None}, maxiter : {1}]
    /\ self = <<>> /\ yfock = <<>> /\ kiter = 0
    /\ scfStatus = "INIT" /\ eigvecs = <<>> /\ dm_raw = <<>> /\ dens_tot = <<>>
    /\ dm_norm = <<>> /\ derr = ""

NextPost ==
    \/ DftInitFock
    \/ ScfIterate
    \/ ScfGiveUp
    \/ EigenRaises
    \/ DftFinish
    \/ Energy
    \/ EnergyRaises
    \/ Density

SpecPost == InitPost /\ [][NextPost]_vars

(***************************************************************************)
(* Claims about dft, checked under SpecDft.                                *)
(***************************************************************************)
\* C4: whenever the total particle count of the matrix handed to
\* __normalize_dm is nonzero, the matrix it returns has total particle count
\* numel; so has the scf_dm stored at the end of __init__.
C4_NormalizedTotalIsNumel ==
    /\ (dm_norm # <<>> /\ dens_tot # Rat(0))
          => DensTot(dm_norm, sys.grid) = Rat(sys.numel)
    /\ (dpc = "constructed" /\ dens_tot # Rat(0))
          => DensTot(self.scf_dm, sys.grid) = Rat(self.numel)

C4_Witness ==
    /\ dpc = "constructed"
    /\ kiter = 2
    /\ self.numel = 3
    /\ self.scf_dm = dm_norm
    /\ dens_tot \notin {Rat(0), Rat(1), Rat(3)}
    /\ \E p \in 1..2 : \E q \in 1..2 : dm_raw[p][q][1] < 0

\* C5: when the total particle count handed to __normalize_dm is zero, a
\* numerical-degeneracy error is signalled and no density matrix is produced.
C5_ZeroTotalSignalsDegeneracy ==
    (dens_tot = Rat(0)) => (derr = "NumericalDegeneracy" /\ dm_norm = <<>>)

\* C6: when equilibrium exhausts maxiter without converging, the outcome is
\* reported: __init__ does not complete with scf_dm / scf_density stored and
\* nothing on the object that tells the state from a converged one.
C6_MaxIterExceededIsReported ==
    (scfStatus = "MAX_ITER_EXCEEDED" /\ dpc = "constructed")
        => ("converged" \in DOMAIN self /\ self.converged = FALSE)

\* C9 (as stated): the matrix built before normalization is
\* D[p][q] = 2 * sum over occupied o of v[p][o] * v[q][o].
C9_RawDmIsTwiceOuterSum ==
    dm_raw # <<>> =>
        \A p \in 1..Len(eigvecs) : \A q \in 1..Len(eigvecs) :
            dm_raw[p][q] = Rat(2 * Contract(eigvecs, p, q, self.norb))

\* C9 (amended): the matrix built before normalization is
\* D[p][q] = sum over occupied o of v[p][o] * v[q][o], without a factor 2.
C9_RawDmIsOuterSum ==
    dm_raw # <<>> =>
        /\ Len(eigvecs[1]) = self.norb
        /\ Len(dm_raw) = Len(eigvecs)
        /\ \A p \in 1..Len(eigvecs) : \A q \in 1..Len(eigvecs) :
            /\ Len(dm_raw[p]) = Len(eigvecs)
            /\ dm_raw[p][q][2] = 1
            /\ dm_raw[p][q][1] =
                  IF self.norb = 1 THEN eigvecs[p][1] * eigvecs[q][1]
                  ELSE eigvecs[p][1] * eigvecs[q][1] + eigvecs[p][2] * eigvecs[q][2]

C9_Witness ==
    /\ dm_raw # <<>>
    /\ self.norb = 2
    /\ dm_raw[1][2] = Rat(-2)
    /\ dm_raw[1][1] = Rat(2)
    /\ dpc = "scf"

\* C12: once dft.__init__ has finished, no energy() or density() call changes
\* scf_dm or scf_density; an energy() call that finds no stored energy and
\* returns has made one diagonalisation and stored the value it returns; and
\* once an energy is stored, every energy() call returns that stored value
\* with no further diagonalisation and without changing it.
C12_ConvergedSolutionImmutable ==
    [][ dpc = "constructed" =>
          /\ self'.scf_dm = self.scf_dm
          /\ self'.scf_density = self.scf_density
          /\ self.scf_energy # None =>
                /\ ndiag' = ndiag
                /\ self'.scf_energy = self.scf_energy
                /\ lastret'[1].op = "energy" =>
                      lastret'[1].kind = "return" /\ lastret'[1].val = self.scf_energy
          /\ (self.scf_energy = None /\ lastret'[1].op = "energy"
                /\ lastret'[1].kind = "return") =>
                /\ ndiag' = ndiag + 1
                /\ self'.scf_energy # None
                /\ lastret'[1].val = self'.scf_energy ]_vars

\* three calls were made, the last an energy() that returned the stored value
\* of an earlier one, after a single diagonalisation
C12_Witness ==
    /\ dpc = "constructed"
    /\ ncall = MaxCalls
    /\ ndiag = 1
    /\ self.scf_energy # None
    /\ lastret = Some([op |-> "energy", kind |-> "return", val |-> self.scf_energy])

(***************************************************************************)
(* HamiltonAtomYGauss.__init__, hatomygauss.py lines 47-53 and 114-125.    *)
(* A Python float l(l+1) + noise is [whole, nano]: whole + nano * 1e-9.    *)
(* A float32 tensor element is [whole, ulps, exp]:                         *)
(* whole + ulps * 2^(exp - 23), with 2^exp <= whole < 2^(exp + 1).         *)
(***************************************************************************)
MaxAngmom == 3         \* largest maxangmom a caller passes
EpsNano == 1           \* eps = 1e-9, in units of 1e-9
Eps2Nano == 10         \* eps2 = 1e-8, in units of 1e-9
Dtypes == {"float32", "float64"}
GwidthCounts == {1, 2}

RECURSIVE Pow2(_)
Pow2(k) == IF k = 0 THEN 1 ELSE 2 * Pow2(k - 1)

RECURSIVE Log2Floor(_)
Log2Floor(n) == IF n < 2 THEN 0 ELSE 1 + Log2Floor(n \div 2)

\* lines 122-123: noise = j * eps + angmom * eps2; angmom*(angmom+1) + noise
LhatValue(l, j) == [whole |-> l * (l + 1), nano |-> j * EpsNano + l * Eps2Nano]

\* torch.tensor(lhat, dtype=dtype) on one element: float64 keeps the Python
\* float; float32 rounds to the nearest multiple of 2^(exp - 23)
ToDtype(v, dtype) ==
    IF dtype = "float64" \/ v.whole = 0 THEN v
    ELSE [whole |-> v.whole,
          ulps |-> (v.nano * Pow2(23 - Log2Floor(v.whole)) + 500000000) \div 1000000000,
          exp |-> Log2Floor(v.whole)]

\* lines 47-53 and 114-117
HamBegin ==
    /\ hpc = "new"
    /\ hshape' = [nsh |-> (hin.maxangmom + 1) * (hin.maxangmom + 1),
                  ns |-> hin.ng * (hin.maxangmom + 1) * (hin.maxangmom + 1)]
    /\ lhat_list' = <<>>
    /\ angmom' = 0
    /\ jm' = 0
    /\ hpc' = "loop"
    /\ UNCHANGED <<nonham, hin, lhat>>

\* lines 118-123: one pass of the inner loop body
HamAppend ==
    /\ hpc = "loop"
    /\ angmom <= hin.maxangmom
    /\ lhat_list' = Append(lhat_list, LhatValue(angmom, jm))
    /\ IF jm < angmom
       THEN /\ jm' = jm + 1
            /\ UNCHANGED angmom
       ELSE /\ angmom' = angmom + 1
            /\ jm' = -(angmom + 1)
    /\ UNCHANGED <<nonham, hpc, hin, hshape, lhat>>

\* line 125
HamFinish ==
    /\ hpc = "loop"
    /\ angmom > hin.maxangmom
    /\ lhat' = [k \in 1..Len(lhat_list) |-> ToDtype(lhat_list[k], hin.dtype)]
    /\ hpc' = "done"
    /\ UNCHANGED <<nonham, hin, hshape, angmom, jm, lhat_list>>

InitHam ==
    /\ IdleNorm
    /\ IdlePost
    /\ IdleDflt
    /\ IdleGrid
    /\ IdleVG
    /\ IdleOpt
    /\ IdleBwd
    /\ IdleDft
    /\ hpc = "new"
    /\ hin \in [maxangmom : 0..MaxAngmom, dtype : Dtypes, ng : GwidthCounts]
    /\ hshape = <<>> /\ angmom = 0 /\ jm = 0
    /\ lhat_list = <<>> /\ lhat = <<>>

NextHam ==
    \/ HamBegin
    \/ HamAppend
    \/ HamFinish

SpecHam == InitHam /\ [][NextHam]_vars

\* the tensor element e is exactly l(l+1) + j*1e-9 + l*1e-8
IsLhatOf(e, l, j) ==
    IF "nano" \in DOMAIN e
    THEN e.whole = l * (l + 1) /\ e.nano = j + 10 * l
    ELSE e.whole = l * (l + 1) /\ e.ulps = 0 /\ j + 10 * l = 0

\* C10: self.lhat has (maxangmom+1)^2 factors, the one of (l, j) equal to
\* l(l+1) + j*1e-9 + l*1e-8, and all of them pairwise distinct.
C10_LhatDistinctPerturbed ==
    hpc = "done" =>
        /\ Len(lhat) = (hin.maxangmom + 1) * (hin.maxangmom + 1)
        /\ hshape.nsh = Len(lhat)
        /\ \A l \in 0..hin.maxangmom : \A j \in (-l)..l :
              IsLhatOf(lhat[l * l + l + j + 1], l, j)
        /\ \A a \in 1..Len(lhat) : \A b \in 1..Len(lhat) :
              a # b => lhat[a] # lhat[b]

(***************************************************************************)
(* dft.__init__, dft.py lines 28-53, with __get_default_eigen_options and  *)
(* __get_default_solve_options, lines 201-215.  An options dict is a set   *)
(* of <<key, value>> pairs; a value is Some(name) or None.                 *)
(***************************************************************************)
MaxBasis == 11         \* largest basis dimension of the Hamiltonian
EigThreshold == 100    \* line 204
SolveThreshold == 20   \* line 211

\* the eigen_options dicts a caller passes (the default argument is {})
EigenArgs == { {}, {<<"method", Some("davidson")>>}, {<<"method", Some("exacteig")>>},
               {<<"nguess", Some("2")>>} }
\* the bck_options a caller passes (the default argument is None)
BckArgs == { None, Some({}), Some({<<"method", Some("cg")>>}),
             Some({<<"rtol", Some("1e-9")>>}) }

Keys(d) == { p[1] : p \in d }
HasKey(d, k) == k \in Keys(d)
Get(d, k) == (CHOOSE p \in d : p[1] = k)[2]

\* set_default_option(defopt, opt): the defaults, overridden by the caller's entries
SetDefaultOption(defopt, opt) == opt \cup { p \in defopt : ~HasKey(opt, p[1]) }

\* lines 202 and 209: nsize = self.hmodel.shape[-1]*self.hmodel.shape[-2]
Nsize(shape) == shape[Len(shape)] * shape[Len(shape) - 1]

\* lines 201-206
GetDefaultEigenOptions(shape) ==
    IF Nsize(shape) < EigThreshold THEN {<<"method", Some("exacteig")>>} ELSE {}

\* lines 208-215
GetDefaultSolveOptions(shape) ==
    IF Nsize(shape) < SolveThreshold THEN {<<"method", Some("exactsolve")>>}
    ELSE {<<"method", None>>}

\* lines 47-49 and 53
DfltEigen ==
    /\ opc = "new"
    /\ eigen_options' = Some(SetDefaultOption(GetDefaultEigenOptions(hmshape), eig_arg))
    /\ opc' = "eigen"
    /\ UNCHANGED <<nondflt, hmshape, eig_arg, bck_arg, bck_options>>

\* lines 35-36 and 50-52
DfltSolve ==
    /\ opc = "eigen"
    /\ bck_options' = Some(SetDefaultOption(GetDefaultSolveOptions(hmshape),
                                            IF bck_arg = None THEN {} ELSE bck_arg[1]))
    /\ opc' = "done"
    /\ UNCHANGED <<nondflt, hmshape, eig_arg, bck_arg, eigen_options>>

InitDflt ==
    /\ IdleNorm
    /\ IdleOpt
    /\ IdleBwd
    /\ IdleDft
    /\ IdleHam
    /\ IdlePost
    /\ IdleGrid
    /\ IdleVG
    /\ opc = "new"
    /\ hmshape \in { <<n, n>> : n \in 1..MaxBasis }
    /\ eig_arg \in EigenArgs
    /\ bck_arg \in BckArgs
    /\ eigen_options = None
    /\ bck_options = None

NextDflt ==
    \/ DfltEigen
    \/ DfltSolve

SpecDflt == InitDflt /\ [][NextDflt]_vars

\* the total basis dimension of the Hamiltonian
BasisDim == hmshape[Len(hmshape)]
\* the caller named no method in the respective options
NoEigenMethodGiven == ~HasKey(eig_arg, "method")
NoSolveMethodGiven == bck_arg = None \/ ~HasKey(bck_arg[1], "method")

\* C11: with no method given by the caller, "exacteig" is selected exactly
\* when the basis dimension is below 100 (otherwise no method is set), and
\* "exactsolve" exactly when the basis dimension is below 20 (otherwise the
\* method is None).
C11_ExactBelowBasisThreshold ==
    opc = "done" =>
        /\ NoEigenMethodGiven =>
             IF BasisDim < EigThreshold
             THEN HasKey(eigen_options[1], "method")
                  /\ Get(eigen_options[1], "method") = Some("exacteig")
             ELSE ~HasKey(eigen_options[1], "method")
        /\ NoSolveMethodGiven =>
             Get(bck_options[1], "method") =
                 IF BasisDim < SolveThreshold THEN Some("exactsolve") ELSE None

(***************************************************************************)
(* dft.__normalize_dm, dft.py lines 144-151, applied to a given matrix D,  *)
(* to c * D and to its own result.                                         *)
(***************************************************************************)
\* entries of the matrices handed to __normalize_dm
DmEntries == {-1, 0, 1, 2}
\* the nonzero prefactors c
Scalars == {Rat(-1), Rat(2), Rat(3), <<1, 2>>}

\* the 2 x 2 matrices over DmEntries
DmInputs == { << <<Rat(a), Rat(b)>>, <<Rat(c), Rat(d)>> >> :
                a \in DmEntries, b \in DmEntries, c \in DmEntries, d \in DmEntries }

\* c * dm
Scale(c, dm) == [p \in 1..Len(dm) |-> [q \in 1..Len(dm) |-> RMul(c, dm[p][q])]]

\* __normalize_dm(D)
NormPlain ==
    /\ npc = "new"
    /\ nout' = [nout EXCEPT !.plain = NormalizeDm(nin.dm, nin.numel, nin.grid)]
    /\ npc' = "plain"
    /\ UNCHANGED <<nonnorm, nin>>

\* __normalize_dm(c * D)
NormScaled ==
    /\ npc = "plain"
    /\ nout' = [nout EXCEPT !.scaled = NormalizeDm(Scale(nin.c, nin.dm), nin.numel, nin.grid)]
    /\ npc' = "scaled"
    /\ UNCHANGED <<nonnorm, nin>>

\* __normalize_dm(__normalize_dm(D))
NormTwice ==
    /\ npc = "scaled"
    /\ nout' = [nout EXCEPT !.twice = NormalizeDm(nout.plain, nin.numel, nin.grid)]
    /\ npc' = "twice"
    /\ UNCHANGED <<nonnorm, nin>>

InitNorm ==
    /\ IdleOpt
    /\ IdleBwd
    /\ IdleDft
    /\ IdleHam
    /\ IdlePost
    /\ IdleDflt
    /\ IdleGrid
    /\ IdleVG
    /\ npc = "new"
    /\ nin \in [dm : DmInputs, c : Scalars, numel : Numels, grid : Grids]
    /\ nout = [plain |-> <<>>, scaled |-> <<>>, twice |-> <<>>]

NextNorm ==
    \/ NormPlain
    \/ NormScaled
    \/ NormTwice

SpecNorm == InitNorm /\ [][NextNorm]_vars

\* C14: for a matrix D with nonzero total and a nonzero scalar c,
\* __normalize_dm(c * D) = __normalize_dm(D) and
\* __normalize_dm(__normalize_dm(D)) = __normalize_dm(D), every entry of the
\* result being the entry of D times the one scalar numel / total.
C14_NormalizeScaleInvariantIdempotent ==
    (npc = "twice" /\ DensTot(nin.dm, nin.grid) # Rat(0)) =>
        /\ nout.scaled = nout.plain
        /\ nout.twice = nout.plain
        /\ \A p \in 1..2, q \in 1..2 :
             nout.plain[p][q] =
                 RMul(nin.dm[p][q], RDiv(Rat(nin.numel), DensTot(nin.dm, nin.grid)))

\* a non-symmetric D whose total is neither zero nor numel, halved: all three
\* calls were made and the result differs from D
C14_Witness ==
    /\ npc = "twice"
    /\ nin.c = <<1, 2>>
    /\ nin.dm[1][2] # nin.dm[2][1]
    /\ DensTot(nin.dm, nin.grid) # Rat(0)
    /\ DensTot(nin.dm, nin.grid) # Rat(nin.numel)
    /\ nout.plain # nin.dm
    /\ nout.scaled = nout.plain
    /\ nout.twice = nout.plain

(***************************************************************************)
(* LegendreRadialTransform.getparams / setparams, radialgrid.py lines      *)
(* 147-171.  The attributes they touch are gathered in a record            *)
(* [rs, dvolume, tparams, iparams]; tparams and iparams are the parameter  *)
(* lists of self.transformobj ("invtransform") and self.interpolator       *)
(* ("interp"), whose own getparams / setparams follow the same protocol.   *)
(***************************************************************************)
MaxParams == 4         \* most positional params handed to setparams

\* tensors, told apart by a tag
GridVals == {1, 2}
\* method names handed to getparams / setparams; the last has no branch
GridMethodNames == {"interpolate", "solve_poisson", "get_dvolume", "laplace"}
GridMethods == {"interpolate", "solve_poisson", "get_dvolume"}

\* params tuples of length lo..hi
ParamTuples(lo, hi) == UNION { [1..n -> GridVals] : n \in lo..hi }

GridAttrs == [rs |-> rs, dvolume |-> dvolume, tparams |-> tparams, iparams |-> iparams]

\* params[k:] of a Python tuple (k counted from 0)
From(ps, k) == SubSeq(ps, k + 1, Len(ps))
\* params[:n]
Leading(ps, n) == SubSeq(ps, 1, IF n < Len(ps) THEN n ELSE Len(ps))

\* lines 147-156 for a method name that has a branch
GetParamsOf(m, at) ==
    IF m = "interpolate" THEN at.tparams \o at.iparams
    ELSE IF m = "solve_poisson" THEN <<at.rs, at.dvolume>>
    ELSE <<at.dvolume>>

\* lines 147-156
GetParamsResult(m, at) ==
    IF m \in GridMethods
    THEN [kind |-> "return", val |-> GetParamsOf(m, at)]
    ELSE [kind |-> "raise", val |-> "RuntimeError"]

\* a setparams whose "solve_poisson" branch stores the two values the other way round
SetParamsResult_Swapped(m, ps, at) ==
    IF m = "solve_poisson" /\ Len(ps) >= 2
    THEN [at |-> [at EXCEPT !.rs = ps[2], !.dvolume = ps[1]], kind |-> "return", val |-> 2]
    ELSE IF m = "get_dvolume" /\ Len(ps) >= 1
    THEN [at |-> [at EXCEPT !.dvolume = ps[1]], kind |-> "return", val |-> 1]
    ELSE [at |-> at, kind |-> "raise", val |-> "RuntimeError"]

\* lines 158-171: the attributes after the call and what the call returns or
\* raises.  Unpacking fewer values than targets raises ValueError before any
\* assignment; in the "interpolate" branch the transform object has already
\* stored its values when the interpolator finds too few.
SetParamsResult(m, ps, at) ==
    LET nt == Len(at.tparams)
        ni == Len(at.iparams)
    IN  IF m = "interpolate"
        THEN IF Len(ps) < nt
             THEN [at |-> at, kind |-> "raise", val |-> "ValueError"]
             ELSE IF Len(From(ps, nt)) < ni
             THEN [at |-> [at EXCEPT !.tparams = Leading(ps, nt)],
                   kind |-> "raise", val |-> "ValueError"]
             ELSE [at |-> [at EXCEPT !.tparams = Leading(ps, nt),
                                     !.iparams = Leading(From(ps, nt), ni)],
                   kind |-> "return", val |-> nt + ni]
        ELSE IF m = "solve_poisson"
        THEN IF Len(Leading(ps, 2)) # 2
             THEN [at |-> at, kind |-> "raise", val |-> "ValueError"]
             ELSE [at |-> [at EXCEPT !.rs = ps[1], !.dvolume = ps[2]],
                   kind |-> "return", val |-> 2]
        ELSE IF m = "get_dvolume"
        THEN IF Len(Leading(ps, 1)) # 1
             THEN [at |-> at, kind |-> "raise", val |-> "ValueError"]
             ELSE [at |-> [at EXCEPT !.dvolume = ps[1]], kind |-> "return", val |-> 1]
        ELSE [at |-> at, kind |-> "raise", val |-> "RuntimeError"]

\* grid.getparams(methodname)
GetParams ==
    \E m \in GridMethodNames :
        /\ gcall' = Some([op |-> "getparams", m |-> m, ps |-> <<>>])
        /\ gret' = Some(GetParamsResult(m, GridAttrs))
        /\ gprev' = Some(GridAttrs)
        /\ UNCHANGED <<nongrid, rs, dvolume, tparams, iparams, lastdv>>

\* grid.setparams(methodname, *params)
SetParams ==
    \E m \in GridMethodNames, ps \in ParamTuples(0, MaxParams) :
        LET res == SetParamsResult(m, ps, GridAttrs) IN
        /\ gcall' = Some([op |-> "setparams", m |-> m, ps |-> ps])
        /\ gret' = Some([kind |-> res.kind, val |-> res.val])
        /\ gprev' = Some(GridAttrs)
        /\ rs' = res.at.rs
        /\ dvolume' = res.at.dvolume
        /\ tparams' = res.at.tparams
        /\ iparams' = res.at.iparams
        /\ lastdv' = IF m \in {"solve_poisson", "get_dvolume"} /\ res.kind = "return"
                     THEN ps[Len(GetParamsOf(m, GridAttrs))]
                     ELSE lastdv
        /\ UNCHANGED nongrid

InitGrid ==
    /\ IdleOpt
    /\ IdleBwd
    /\ IdleDft
    /\ IdleHam
    /\ IdlePost
    /\ IdleNorm
    /\ IdleDflt
    /\ IdleVG
    /\ rs \in GridVals
    /\ dvolume \in GridVals
    /\ tparams \in [1..2 -> GridVals]
    /\ iparams \in [1..1 -> GridVals]
    /\ gcall = None /\ gret = None /\ gprev = None
    /\ lastdv = dvolume

NextGrid ==
    \/ GetParams
    \/ SetParams

SpecGrid == InitGrid /\ [][NextGrid]_vars

\* C16: after a setparams(m, *ps) for one of the three method names, given at
\* least n = len(getparams(m)) values, the call has returned n and
\* getparams(m) yields the leading n values of ps in order; a setparams given
\* exactly what getparams(m) returned has changed no attribute; a getparams
\* changes nothing; for any other method name both calls raise RuntimeError
\* and change nothing; and getparams("get_dvolume") is always the _dvolume
\* most recently set through "solve_poisson" or "get_dvolume".
C16_ParamsRoundTrip ==
    /\ GetParamsOf("get_dvolume", GridAttrs) = <<lastdv>>
    /\ gcall # None =>
         LET c == gcall[1]
             r == gret[1]
             before == gprev[1]
             n == Len(GetParamsOf(c.m, before))
         IN  /\ c.m \notin GridMethods =>
                   r = [kind |-> "raise", val |-> "RuntimeError"] /\ GridAttrs = before
             /\ (c.m \in GridMethods /\ c.op = "getparams") =>
                   /\ r = [kind |-> "return", val |-> GetParamsOf(c.m, GridAttrs)]
                   /\ GridAttrs = before
             /\ (c.m \in GridMethods /\ c.op = "setparams" /\ Len(c.ps) >= n) =>
                   /\ r = [kind |-> "return", val |-> n]
                   /\ GetParamsOf(c.m, GridAttrs) = SubSeq(c.ps, 1, n)
                   /\ Len(GetParamsOf(c.m, GridAttrs)) = n
                   /\ c.ps = GetParamsOf(c.m, before) => GridAttrs = before

\* setparams("solve_poisson", ...) was given three values, two of them
\* different and new, stored the leading two and returned 2
C16_Witness ==
    /\ gcall # None
    /\ gcall[1].op = "setparams"
    /\ gcall[1].m = "solve_poisson"
    /\ Len(gcall[1].ps) = 3
    /\ gcall[1].ps[1] # gcall[1].ps[2]
    /\ gprev[1].rs # gcall[1].ps[1]
    /\ gprev[1].dvolume # gcall[1].ps[2]
    /\ gret[1] = [kind |-> "return", val |-> 2]
    /\ <<rs, dvolume>> = SubSeq(gcall[1].ps, 1, 2)

(***************************************************************************)
(* ValGrad with _add_densinfo and _mul_densinfo, datastruct.py lines       *)
(* 19-41.  A tensor is an integer; an Optional field is None or Some(t).   *)
(***************************************************************************)
VgValues == {1, 2}
VgOptionals == {None, Some(1), Some(3)}
VgFactors == {-1, 0, 2}
ValGrads == [value : VgValues, grad : VgOptionals, lapl : VgOptionals]

\* "a.fld + b.fld if a.fld is not None else None" raises TypeError when a.fld
\* is a tensor and b.fld is None (tensor + None)
AddRaises(fa, fb) == fa # None /\ fb = None

\* "a.fld + b.fld if a.fld is not None else None" when it does not raise
AddOptional(fa, fb) == IF fa # None THEN Some(fa[1] + fb[1]) ELSE None

\* "a.fld * f if a.fld is not None else None"
MulOptional(fa, f) == IF fa # None THEN Some(fa[1] * f) ELSE None

\* _add_densinfo, lines 26-31: the keyword arguments are evaluated in order
\* and the first exception ends the call
AddDensinfo(a, b) ==
    IF AddRaises(a.grad, b.grad) \/ AddRaises(a.lapl, b.lapl)
    THEN [kind |-> "raise", val |-> "TypeError"]
    ELSE [kind |-> "return",
          val |-> [value |-> a.value + b.value,
                   grad |-> AddOptional(a.grad, b.grad),
                   lapl |-> AddOptional(a.lapl, b.lapl)]]

\* _mul_densinfo, lines 33-38
MulDensinfo(a, f) ==
    [kind |-> "return",
     val |-> [value |-> a.value * f,
              grad |-> MulOptional(a.grad, f),
              lapl |-> MulOptional(a.lapl, f)]]

\* a + b (line 40)
VgAdd ==
    /\ vpc = "new"
    /\ vres' = Some(AddDensinfo(va, vb))
    /\ vop' = "add"
    /\ vpc' = "done"
    /\ UNCHANGED <<nonvg, va, vb, vf>>

\* a * f (line 41)
VgMul ==
    /\ vpc = "new"
    /\ vres' = Some(MulDensinfo(va, vf))
    /\ vop' = "mul"
    /\ vpc' = "done"
    /\ UNCHANGED <<nonvg, va, vb, vf>>

InitVG ==
    /\ IdleOpt
    /\ IdleBwd
    /\ IdleDft
    /\ IdleHam
    /\ IdlePost
    /\ IdleNorm
    /\ IdleDflt
    /\ IdleGrid
    /\ vpc = "new"
    /\ va \in ValGrads
    /\ vb \in ValGrads
    /\ vf \in VgFactors
    /\ vop = ""
    /\ vres = None

NextVG ==
    \/ VgAdd
    \/ VgMul

SpecVG == InitVG /\ [][NextVG]_vars

\* the Optional field x is present
Present(fa) == fa # None

\* C17: a + b is a ValGrad whose value is the sum of the values and whose grad
\* and lapl are each present exactly when a's is (then the sum of the two
\* fields), whatever b's field is; a * f multiplies every present field of a
\* by f and keeps absent fields absent.
C17_ResultFieldsFollowLeftOperand ==
    vpc = "done" =>
        /\ vres[1].kind = "return"
        /\ Present(vres[1].val.grad) = Present(va.grad)
        /\ Present(vres[1].val.lapl) = Present(va.lapl)
        /\ vop = "add" =>
             /\ vres[1].val.value = va.value + vb.value
             /\ (Present(va.grad) /\ Present(vb.grad)) =>
                   vres[1].val.grad = Some(va.grad[1] + vb.grad[1])
             /\ (Present(va.lapl) /\ Present(vb.lapl)) =>
                   vres[1].val.lapl = Some(va.lapl[1] + vb.lapl[1])
        /\ vop = "mul" =>
             /\ vres[1].val.value = va.value * vf
             /\ Present(va.grad) => vres[1].val.grad = Some(va.grad[1] * vf)
             /\ Present(va.lapl) => vres[1].val.lapl = Some(va.lapl[1] * vf)
====
